---- MODULE Spec2Model ----
(***************************************************************************)
(* Model of src/src/ui/studio-dynamic.py : class DynamicStudio.            *)
(*                                                                         *)
(* One asyncio event loop runs every coroutine; a coroutine runs without   *)
(* interruption from one await to the next, so each action below is the    *)
(* code between two suspension points.  The suspension points are          *)
(*   - `async for message in websocket`   (handle_websocket, line 89)      *)
(*   - `await client.send(message_json)`  (broadcast_message, line 195)    *)
(*   - `await client.close()`             (stop, line 78)                  *)
(*   - `await asyncio.create_task(websockets.serve(...))` (start, line 59) *)
(***************************************************************************)
EXTENDS Integers, Sequences, FiniteSets, TLC

(***************************************************************************)
(* Bounds of the model.                                                    *)
(***************************************************************************)
\* number of viewer connections that may ever be accepted
MaxConns == 2

Conns == 1..MaxConns

\* the task the renderer creates for handle_button_click / handle_input_change
\* (asyncio.create_task, lines 230 and 239); it is no connection
EventTask == 0

Tasks == Conns \cup {EventTask}

VARIABLES
    is_running,         \* self.is_running
    components,         \* self.components : dict id -> component
    websocket_clients,  \* self.websocket_clients : list of connections
    listening,          \* the websockets server of start() is bound and accepting
    startPc,            \* position of the start() coroutine
    stopRec,            \* position and locals of the stop() coroutine
    hpc,                \* position of handle_websocket for each connection
    sockOpen,           \* transport state of each connection (websocket.open)
    bc,                 \* position and locals of broadcast_message, per calling task
    last,               \* the last frame handed to handle_message, and what it found
    guardReturn         \* "start" / "stop" when the last step was a call of start()
                        \* / stop() that returned at its guard (lines 53, 72)

vars == <<is_running, components, websocket_clients, listening, startPc, stopRec,
          hpc, sockOpen, bc, last, guardReturn>>

(***************************************************************************)
(* Python values.                                                          *)
(***************************************************************************)
\* Python's None, as returned by dict.get for a missing key
None == "<None>"

\* the empty dict {}
EmptyDict == [k \in {} |-> None]

\* dict.get(key) : the value, or None when the key is missing
Get(d, key) == IF key \in DOMAIN d THEN d[key] ELSE None

\* dict.update(other) : keys of other are added or overwritten in d
DictUpdate(d, other) ==
    [k \in (DOMAIN d) \cup (DOMAIN other) |->
        IF k \in DOMAIN other THEN other[k] ELSE d[k]]

\* truthiness of a str-or-None value (`if component_id:`)
Truthy(v) == v # None /\ v # ""

\* `a or b` on str-or-None values
PyOr(a, b) == IF Truthy(a) THEN a ELSE b

\* the set of elements of a list
Range(s) == {s[k] : k \in 1..Len(s)}

\* `x in list`
Contains(list, x) == x \in Range(list)

\* list.remove(x) for x in list : deletes the first occurrence
ListRemove(list, x) ==
    LET first == CHOOSE k \in 1..Len(list) :
                     list[k] = x /\ \A j \in 1..(k - 1) : list[j] # x
    IN  [k \in 1..(Len(list) - 1) |-> IF k < first THEN list[k] ELSE list[k + 1]]

(***************************************************************************)
(* Components and frames.                                                  *)
(*                                                                         *)
(* A component is one Python dict.  Its keys are kept in three typed       *)
(* parts: `fields` holds the top-level keys with scalar values ("id",      *)
(* "componentId", "type", and whatever dict.update adds), `props` is the   *)
(* value under "props", `children` the value under "children" (the ids of  *)
(* the nested components, in order).                                       *)
(***************************************************************************)
CompButton ==
    [fields |-> ("id" :> "c1" @@ "type" :> "button"),
     props |-> ("label" :> "Go" @@ "size" :> "m"),
     children |-> <<>>]

CompButton2 ==
    [fields |-> ("id" :> "c1" @@ "type" :> "button"),
     props |-> EmptyDict,
     children |-> <<>>]

\* a component that carries its identifier under "componentId" only
CompCard ==
    [fields |-> ("componentId" :> "c2" @@ "type" :> "card"),
     props |-> ("title" :> "T"),
     children |-> <<"c1">>]

\* a component whose id is the empty string
CompEmptyId ==
    [fields |-> ("id" :> "" @@ "type" :> "text"),
     props |-> EmptyDict,
     children |-> <<>>]

ComponentInputs == {CompButton, CompButton2, CompCard, CompEmptyId}

\* partial props mappings sent in ui.component.update
PropsInputs == {("label" :> "Stop"), ("label" :> "Stop" @@ "k2" :> "v3"), ("id" :> "c9")}

IdInputs == {"c1", "c2"}

\* a frame that json.loads rejects
BadFrame == [raw |-> "{not json"]

\* the decoded frames (the dict json.loads returns) the model sends
StudioUpdateFrames ==
    {[type |-> "ui.studio.update", component |-> c] : c \in ComponentInputs}
        \cup {[type |-> "ui.studio.update"]}

CreateFrames ==
    {[type |-> "ui.component.create", component |-> c] : c \in ComponentInputs}
        \cup {[type |-> "ui.component.create"]}

UpdateFrames ==
    {[type |-> "ui.component.update", componentId |-> i, props |-> p] :
        i \in IdInputs, p \in PropsInputs}
        \cup {[type |-> "ui.component.update", componentId |-> "c1"],
              [type |-> "ui.component.update", props |-> ("label" :> "Stop")]}

DeleteFrames ==
    {[type |-> "ui.component.delete", componentId |-> i] : i \in IdInputs}
        \cup {[type |-> "ui.component.delete"]}

ToolCallFrames == {[type |-> "ui.mcp.tool.call", tool |-> "search"]}

OtherFrames == {[type |-> "ui.bogus"], [other |-> "x"], BadFrame}

Frames ==
    StudioUpdateFrames \cup CreateFrames \cup UpdateFrames \cup DeleteFrames
        \cup ToolCallFrames \cup OtherFrames

\* a store that keeps the value already held under the id
PutIfAbsent(comps, id, value) ==
    [k \in (DOMAIN comps) \cup {id} |-> IF k \in DOMAIN comps THEN comps[k] ELSE value]

\* self.components[component_id] = value
Put(comps, id, value) ==
    [k \in (DOMAIN comps) \cup {id} |-> IF k = id THEN value ELSE comps[k]]

\* a delete that leaves the entry in place
DelNothing(comps, id) == comps

\* del self.components[component_id]
Del(comps, id) == [k \in (DOMAIN comps) \ {id} |-> comps[k]]

\* the result of a handler that changes nothing and broadcasts nothing
NoEffect(comps) == [comps |-> comps, out |-> <<>>, raised |-> FALSE]

\* the result of a handler that raised before it changed anything
Raised(comps) == [comps |-> comps, out |-> <<>>, raised |-> TRUE]

\* handle_ui_update(data.get("component")) up to its call of broadcast_message
handle_ui_update(comps, data) ==
    IF "component" \notin DOMAIN data
    THEN Raised(comps)    \* None.get : AttributeError
    ELSE LET component == data.component
             component_id == Get(component.fields, "id")
         IN  IF Truthy(component_id)
             THEN [comps |-> Put(comps, component_id, component),
                   out |-> <<[type |-> "ui.studio.update", component |-> component]>>,
                   raised |-> FALSE]
             ELSE NoEffect(comps)

\* a handle_mcp_tool_call that keeps a component for the tool in the registry
handle_mcp_tool_callStoring(comps, data) ==
    [comps |-> Put(comps, "tool", CompButton),
     out |-> <<[type |-> "ui.mcp.tool.response",
                response |-> [success |-> TRUE, tool |-> Get(data, "tool"),
                              data |-> EmptyDict, components |-> <<>>]]>>,
     raised |-> FALSE]

\* handle_mcp_tool_call(data.get("tool"), data.get("args")) up to its broadcast
handle_mcp_tool_call(comps, data) ==
    [comps |-> comps,
     out |-> <<[type |-> "ui.mcp.tool.response",
                response |-> [success |-> TRUE, tool |-> Get(data, "tool"),
                              data |-> EmptyDict, components |-> <<>>]]>>,
     raised |-> FALSE]

\* handle_component_create(data.get("component")) up to its broadcast
handle_component_create(comps, data) ==
    IF "component" \notin DOMAIN data
    THEN Raised(comps)    \* None.get : AttributeError
    ELSE LET component == data.component
             component_id == PyOr(Get(component.fields, "id"),
                                  Get(component.fields, "componentId"))
         IN  IF Truthy(component_id)
             THEN [comps |-> Put(comps, component_id, component),
                   out |-> <<[type |-> "ui.component.create", component |-> component]>>,
                   raised |-> FALSE]
             ELSE NoEffect(comps)

\* self.components[component_id].update(props) : the keys of props land at the
\* top level of the component dict
ComponentDictUpdate(component, props) ==
    [component EXCEPT !.fields = DictUpdate(component.fields, props)]

\* handle_component_update(data.get("componentId"), data.get("props")) up to
\* its broadcast
handle_component_update(comps, data) ==
    LET component_id == Get(data, "componentId")
    IN  IF component_id \in DOMAIN comps
        THEN IF "props" \notin DOMAIN data
             THEN Raised(comps)    \* dict.update(None) : TypeError
             ELSE [comps |-> Put(comps, component_id,
                                 ComponentDictUpdate(comps[component_id], data.props)),
                   out |-> <<[type |-> "ui.component.update",
                              componentId |-> component_id, props |-> data.props]>>,
                   raised |-> FALSE]
        ELSE NoEffect(comps)

\* a handle_component_delete without the membership test of line 179
handle_component_deleteUnguarded(comps, data) ==
    LET component_id == Get(data, "componentId")
    IN  [comps |-> Del(comps, component_id),
         out |-> <<[type |-> "ui.component.delete", componentId |-> component_id]>>,
         raised |-> FALSE]

\* handle_component_delete(data.get("componentId")) up to its broadcast
handle_component_delete(comps, data) ==
    LET component_id == Get(data, "componentId")
    IN  IF component_id \in DOMAIN comps
        THEN [comps |-> Del(comps, component_id),
              out |-> <<[type |-> "ui.component.delete", componentId |-> component_id]>>,
              raised |-> FALSE]
        ELSE NoEffect(comps)

\* a handle_message that echoes a frame of unknown type to the viewers
handle_messageEchoUnknown(comps, frame) ==
    IF "raw" \in DOMAIN frame
    THEN Raised(comps)
    ELSE [comps |-> comps, out |-> <<frame>>, raised |-> FALSE]

\* handle_message up to the broadcast its handler issues: json.loads, the
\* dispatch on data.get("type"), and the two except clauses
handle_message(comps, frame) ==
    IF "raw" \in DOMAIN frame
    THEN Raised(comps)    \* json.JSONDecodeError, logged
    ELSE LET message_type == Get(frame, "type")
         IN  CASE message_type = "ui.studio.update" -> handle_ui_update(comps, frame)
               [] message_type = "ui.mcp.tool.call" -> handle_mcp_tool_call(comps, frame)
               [] message_type = "ui.component.create" -> handle_component_create(comps, frame)
               [] message_type = "ui.component.update" -> handle_component_update(comps, frame)
               [] message_type = "ui.component.delete" -> handle_component_delete(comps, frame)
               [] OTHER -> NoEffect(comps)    \* "Unknown message type", logged

(***************************************************************************)
(* broadcast_message (lines 188-201).                                      *)
(*                                                                         *)
(* `for client in self.websocket_clients` walks the list itself, not a     *)
(* copy: the iterator keeps an index i, and each round takes list[i] if    *)
(* i < len(list) and stops otherwise, whatever has happened to the list    *)
(* while the coroutine was suspended in `await client.send`.               *)
(*                                                                         *)
(* A broadcast record holds the locals of one call: msg is message_json,   *)
(* i counts the clients taken so far, cur is the client whose send is      *)
(* awaited, disc is disconnected_clients.  sent remembers the clients whose *)
(* send has returned; startOpen remembers the clients that were in the     *)
(* list, open, when the iteration began and have stayed open since; quiet  *)
(* tells that every client of the list was open when the iteration began   *)
(* and that since then no connection has been accepted or closed and       *)
(* stop() has not cleared the list.                                        *)
(***************************************************************************)
NoBroadcast ==
    [status |-> "idle", msg |-> <<>>, i |-> 0, cur |-> 0, disc |-> <<>>,
     startOpen |-> {}, sent |-> {}, quiet |-> FALSE]

\* lines 199-201: for client in disconnected_clients: list.remove(client).
\* list.remove raises ValueError for a client that is no longer in the list,
\* which ends the loop.
RECURSIVE RemoveDisconnected(_, _, _)
RemoveDisconnected(list, disc, pruned) ==
    IF disc = <<>>
    THEN [list |-> list, pruned |-> pruned, valueError |-> FALSE]
    ELSE IF Contains(list, Head(disc))
         THEN RemoveDisconnected(ListRemove(list, Head(disc)), Tail(disc),
                                 pruned \cup {Head(disc)})
         ELSE [list |-> list, pruned |-> pruned, valueError |-> TRUE]

\* a broadcast_message whose loop begins at the last client of the list
BroadcastBeginAtLast(list, msg, open) ==
    IF Len(list) = 0
    THEN NoBroadcast
    ELSE [NoBroadcast EXCEPT !.status = "sending", !.msg = <<msg>>, !.i = Len(list),
                             !.cur = list[Len(list)],
                             !.startOpen = {c \in Range(list) : open[c]},
                             !.quiet = \A c \in Range(list) : open[c]]

\* lines 190-195: json.dumps, disconnected_clients = [], and the first round
\* of the for loop up to the first `await client.send`; with an empty list the
\* call returns at once
BroadcastBegin(list, msg, open) ==
    IF Len(list) = 0
    THEN NoBroadcast
    ELSE [NoBroadcast EXCEPT !.status = "sending", !.msg = <<msg>>, !.i = 1,
                             !.cur = list[1],
                             !.startOpen = {c \in Range(list) : open[c]},
                             !.quiet = \A c \in Range(list) : open[c]]

\* a broadcast_message that sends again to a client whose send has failed
BroadcastResumeRetry(b, list, open) ==
    IF open[b.cur]
    THEN [bc |-> [b EXCEPT !.sent = b.sent \cup {b.cur}],
          ended |-> FALSE, sent |-> b.sent \cup {b.cur}, failed |-> Range(b.disc),
          pruned |-> {}, valueError |-> FALSE, list |-> list]
    ELSE [bc |-> [b EXCEPT !.disc = Append(b.disc, b.cur)],
          ended |-> FALSE, sent |-> b.sent, failed |-> Range(b.disc) \cup {b.cur},
          pruned |-> {}, valueError |-> FALSE, list |-> list]

\* lines 195-201: the awaited send returns (or raises ConnectionClosed when
\* the connection is no longer open), then the loop takes its next client, or
\* ends and the disconnected clients are removed.  The result tells whether
\* the call has ended, the clients it has sent to and removed, whether it
\* ended by the ValueError of list.remove, and the list it leaves.
BroadcastResume(b, list, open) ==
    LET delivered == open[b.cur]
        sent1 == IF delivered THEN b.sent \cup {b.cur} ELSE b.sent
        disc1 == IF delivered THEN b.disc ELSE Append(b.disc, b.cur)
    IN  IF b.i < Len(list)
        THEN [bc |-> [b EXCEPT !.i = b.i + 1, !.cur = list[b.i + 1],
                               !.sent = sent1, !.disc = disc1],
              ended |-> FALSE, sent |-> sent1, failed |-> Range(disc1),
              pruned |-> {}, valueError |-> FALSE, list |-> list]
        ELSE LET r == RemoveDisconnected(list, disc1, {})
             IN  [bc |-> NoBroadcast,
                  ended |-> TRUE, sent |-> sent1, failed |-> Range(disc1),
                  pruned |-> r.pruned, valueError |-> r.valueError, list |-> r.list]

(***************************************************************************)
(* The state after __init__ (lines 42-47).                                 *)
(***************************************************************************)
NoFrame == [type |-> None]

NoStop == [status |-> "idle", i |-> 0, startOpen |-> {}]

\* a connection stops being open: it leaves the startOpen of every broadcast
\* and of stop(), and no broadcast in progress is quiet any more
BroadcastsAfterClose(c) ==
    [t \in Tasks |-> [bc[t] EXCEPT !.startOpen = @ \ {c}, !.quiet = FALSE]]

\* a connection is accepted, or stop() clears the list: no broadcast in
\* progress is quiet any more
BroadcastsDisturbed == [t \in Tasks |-> [bc[t] EXCEPT !.quiet = FALSE]]

StopAfterClose(c) == [stopRec EXCEPT !.startOpen = @ \ {c}]

Init ==
    /\ is_running = FALSE
    /\ components = EmptyDict
    /\ websocket_clients = <<>>
    /\ listening = FALSE
    /\ startPc = "idle"
    /\ stopRec = NoStop
    /\ hpc = [c \in Conns |-> "new"]
    /\ sockOpen = [c \in Conns |-> FALSE]
    /\ bc = [t \in Tasks |-> NoBroadcast]
    /\ last = [frame |-> NoFrame, before |-> EmptyDict]
    /\ guardReturn = "none"

(***************************************************************************)
(* start() (lines 49-67).                                                  *)
(***************************************************************************)
\* a start() without the guard of lines 51-53
StartUnguarded ==
    /\ startPc # "binding"
    /\ is_running' = TRUE
    /\ startPc' = "binding"
    /\ guardReturn' = "none"
    /\ UNCHANGED <<components, websocket_clients, listening, stopRec, hpc,
                   sockOpen, bc, last>>

\* lines 51-59: the guard, is_running = True, and the await of the bind
Start ==
    /\ IF is_running
       THEN /\ guardReturn' = "start"            \* "Studio is already running"
            /\ UNCHANGED <<is_running, startPc>>
       ELSE /\ startPc # "binding"
            /\ is_running' = TRUE
            /\ startPc' = "binding"
            /\ guardReturn' = "none"
    /\ UNCHANGED <<components, websocket_clients, listening, stopRec, hpc,
                   sockOpen, bc, last>>

\* websockets.serve succeeds: the server accepts connections (line 67)
BindOk ==
    /\ startPc = "binding"
    /\ startPc' = "idle"
    /\ listening' = TRUE
    /\ UNCHANGED <<is_running, components, websocket_clients, stopRec, hpc,
                   sockOpen, bc, last>>
    /\ guardReturn' = "none"

\* websockets.serve raises (the port is taken): the exception leaves start(),
\* which has no handler for it
BindFail ==
    /\ startPc = "binding"
    /\ startPc' = "idle"
    /\ UNCHANGED <<is_running, components, websocket_clients, listening, stopRec,
                   hpc, sockOpen, bc, last>>
    /\ guardReturn' = "none"

(***************************************************************************)
(* stop() (lines 69-81).  `for client in self.websocket_clients` walks the *)
(* list itself here too.  client.close() starts the closing handshake, so  *)
(* the connection is no longer open from the moment it is called.          *)
(* startOpen remembers the clients that were in the list, open, when the   *)
(* loop began and have stayed open since.                                  *)
(***************************************************************************)
\* lines 71-78: the guard, is_running = False, the first round of the loop
\* up to `await client.close()`; lines 80-81 when the list is empty
Stop ==
    /\ IF ~is_running
       THEN /\ guardReturn' = "stop"
            /\ UNCHANGED <<is_running, stopRec, websocket_clients, sockOpen, bc>>
       ELSE /\ stopRec.status # "closing"
            /\ guardReturn' = "none"
            /\ is_running' = FALSE
            /\ IF Len(websocket_clients) = 0
               THEN /\ stopRec' = NoStop
                    /\ websocket_clients' = <<>>
                    /\ bc' = BroadcastsDisturbed
                    /\ UNCHANGED sockOpen
               ELSE LET client == websocket_clients[1]
                    IN  /\ stopRec' =
                               [status |-> "closing", i |-> 1,
                                startOpen |-> {c \in Range(websocket_clients) :
                                                  sockOpen[c]} \ {client}]
                        /\ sockOpen' = [sockOpen EXCEPT ![client] = FALSE]
                        /\ bc' = BroadcastsAfterClose(client)
                        /\ UNCHANGED websocket_clients
    /\ UNCHANGED <<components, listening, startPc, hpc, last>>

\* lines 77-81: the awaited close returns; the loop takes its next client, or
\* ends and the list is cleared
StopResume ==
    /\ stopRec.status = "closing"
    /\ IF stopRec.i < Len(websocket_clients)
       THEN LET client == websocket_clients[stopRec.i + 1]
            IN  /\ stopRec' = [StopAfterClose(client) EXCEPT !.i = stopRec.i + 1]
                /\ sockOpen' = [sockOpen EXCEPT ![client] = FALSE]
                /\ bc' = BroadcastsAfterClose(client)
                /\ UNCHANGED websocket_clients
       ELSE /\ stopRec' = NoStop
            /\ websocket_clients' = <<>>
            /\ bc' = BroadcastsDisturbed
            /\ UNCHANGED sockOpen
    /\ UNCHANGED <<is_running, components, listening, startPc, hpc, last>>
    /\ guardReturn' = "none"

(***************************************************************************)
(* handle_websocket (lines 83-94), one coroutine per connection.           *)
(***************************************************************************)
\* lines 85-89: the server calls the handler for a new connection; it appends
\* the connection and waits for the first frame.  Connections are numbered in
\* the order the server accepts them.
Accept(c) ==
    /\ listening
    /\ hpc[c] = "new"
    /\ \A d \in Conns : d < c => hpc[d] # "new"
    /\ websocket_clients' = Append(websocket_clients, c)
    /\ sockOpen' = [sockOpen EXCEPT ![c] = TRUE]
    /\ hpc' = [hpc EXCEPT ![c] = "recv"]
    /\ bc' = BroadcastsDisturbed
    /\ UNCHANGED <<is_running, components, listening, startPc, stopRec, last>>
    /\ guardReturn' = "none"

\* a receive loop that takes its next frame without awaiting handle_message
RecvAnytime(c, frame) ==
    /\ hpc[c] \in {"recv", "handling"}
    /\ sockOpen[c]
    /\ LET r == handle_message(components, frame)
           b == IF r.out = <<>> THEN NoBroadcast
                ELSE BroadcastBegin(websocket_clients, r.out[1], sockOpen)
       IN  /\ components' = r.comps
           /\ bc' = [bc EXCEPT ![c] = b]
           /\ hpc' = [hpc EXCEPT ![c] = IF b.status = "sending" THEN "handling" ELSE "recv"]
    /\ last' = [frame |-> frame, before |-> components]
    /\ UNCHANGED <<is_running, websocket_clients, listening, startPc, stopRec, sockOpen>>
    /\ guardReturn' = "none"

\* lines 89-90 with handle_message and the handler it dispatches to, up to the
\* first `await client.send` of the broadcast (or to the next wait for a frame
\* when nothing is broadcast or no client is in the list)
Recv(c, frame) ==
    /\ hpc[c] = "recv"
    /\ sockOpen[c]
    /\ LET r == handle_message(components, frame)
           b == IF r.out = <<>> THEN NoBroadcast
                ELSE BroadcastBegin(websocket_clients, r.out[1], sockOpen)
       IN  /\ components' = r.comps
           /\ bc' = [bc EXCEPT ![c] = b]
           /\ hpc' = [hpc EXCEPT ![c] = IF b.status = "sending" THEN "handling" ELSE "recv"]
    /\ last' = [frame |-> frame, before |-> components]
    /\ UNCHANGED <<is_running, websocket_clients, listening, startPc, stopRec, sockOpen>>
    /\ guardReturn' = "none"

\* the send a broadcast waits for returns or raises ConnectionClosed; the
\* broadcast goes on to its next send or ends, and with it handle_message
\* (whose `except Exception` logs a ValueError of list.remove)
SendReturn(t) ==
    /\ bc[t].status = "sending"
    /\ LET r == BroadcastResume(bc[t], websocket_clients, sockOpen)
       IN  /\ bc' = [bc EXCEPT ![t] = r.bc]
           /\ websocket_clients' = r.list
           /\ hpc' = IF t \in Conns /\ r.ended
                     THEN [hpc EXCEPT ![t] = "recv"]
                     ELSE hpc
    /\ UNCHANGED <<is_running, components, listening, startPc, stopRec, sockOpen, last>>
    /\ guardReturn' = "none"

\* the viewer closes its connection, or the transport fails
PeerClose(c) ==
    /\ hpc[c] \in {"recv", "handling"}
    /\ sockOpen[c]
    /\ sockOpen' = [sockOpen EXCEPT ![c] = FALSE]
    /\ bc' = BroadcastsAfterClose(c)
    /\ stopRec' = StopAfterClose(c)
    /\ UNCHANGED <<is_running, components, websocket_clients, listening, startPc,
                   hpc, last>>
    /\ guardReturn' = "none"

\* the ways `async for message in websocket` ends: the iteration stops after a
\* normal close, raises ConnectionClosed, or raises another exception
ExitKinds == {"graceful", "closed", "other"}

\* a handle_websocket that removes the connection in its except clause only,
\* with no finally clause
HandleWebsocketEndExceptOnly(list, websocket, kind) ==
    IF kind = "closed" /\ Contains(list, websocket)
    THEN [list |-> ListRemove(list, websocket), valueError |-> FALSE]
    ELSE [list |-> list, valueError |-> kind = "closed"]

\* lines 91-94: the except clause and the finally clause of handle_websocket.
\* The finally clause runs on every path; list.remove raises ValueError when
\* the connection is no longer in the list.
HandleWebsocketEnd(list, websocket, kind) ==
    IF Contains(list, websocket)
    THEN [list |-> ListRemove(list, websocket), valueError |-> FALSE]
    ELSE [list |-> list, valueError |-> TRUE]

\* lines 89-94: the receive loop of a connection ends.  The first two ways
\* need a closed connection; the server closes the connection of a handler
\* that has returned.
HandlerExit(c, kind) ==
    /\ hpc[c] = "recv"
    /\ kind \in {"graceful", "closed"} => ~sockOpen[c]
    /\ websocket_clients' = HandleWebsocketEnd(websocket_clients, c, kind).list
    /\ hpc' = [hpc EXCEPT ![c] = "done"]
    /\ sockOpen' = [sockOpen EXCEPT ![c] = FALSE]
    /\ bc' = BroadcastsAfterClose(c)
    /\ stopRec' = StopAfterClose(c)
    /\ UNCHANGED <<is_running, components, listening, startPc, last>>
    /\ guardReturn' = "none"

(***************************************************************************)
(* handle_button_click and handle_input_change (lines 255-272), run as a   *)
(* task of their own by render_component.                                  *)
(***************************************************************************)
handle_button_click(component_id) ==
    [type |-> "ui.event", eventType |-> "click", componentId |-> component_id]

handle_input_change(component_id, value) ==
    [type |-> "ui.event", eventType |-> "change", componentId |-> component_id,
     value |-> value]

ButtonClick(component_id) ==
    /\ bc[EventTask].status # "sending"
    /\ bc' = [bc EXCEPT ![EventTask] =
                 BroadcastBegin(websocket_clients, handle_button_click(component_id),
                                sockOpen)]
    /\ UNCHANGED <<is_running, components, websocket_clients, listening, startPc,
                   stopRec, hpc, sockOpen, last>>
    /\ guardReturn' = "none"

InputChange(component_id, value) ==
    /\ bc[EventTask].status # "sending"
    /\ bc' = [bc EXCEPT ![EventTask] =
                 BroadcastBegin(websocket_clients,
                                handle_input_change(component_id, value), sockOpen)]
    /\ UNCHANGED <<is_running, components, websocket_clients, listening, startPc,
                   stopRec, hpc, sockOpen, last>>
    /\ guardReturn' = "none"

(***************************************************************************)
(* The specifications.                                                     *)
(*                                                                         *)
(* Spec: every connection, each sending the frame that creates one         *)
(* component; it is the specification of the claims about connections,     *)
(* broadcasts and the lifecycle.                                           *)
(* SpecRegistry: one connection and the renderer's events, with every      *)
(* frame of Frames; it is the specification of the claims about the        *)
(* registry.                                                               *)
(***************************************************************************)
LiveFrames == {[type |-> "ui.component.create", component |-> CompButton]}

Next ==
    \/ Start
    \/ BindOk
    \/ BindFail
    \/ Stop
    \/ StopResume
    \/ \E c \in Conns : Accept(c)
    \/ \E c \in Conns : \E frame \in LiveFrames : Recv(c, frame)
    \/ \E c \in Conns : SendReturn(c)
    \/ \E c \in Conns : PeerClose(c)
    \/ \E c \in Conns : \E kind \in ExitKinds : HandlerExit(c, kind)

Spec == Init /\ [][Next]_vars

NextRegistry ==
    \/ Start
    \/ BindOk
    \/ BindFail
    \/ Stop
    \/ StopResume
    \/ Accept(1)
    \/ \E frame \in Frames : Recv(1, frame)
    \/ \E t \in {EventTask, 1} : SendReturn(t)
    \/ PeerClose(1)
    \/ \E kind \in ExitKinds : HandlerExit(1, kind)
    \/ ButtonClick("c1")
    \/ InputChange("c1", "x")

SpecRegistry == Init /\ [][NextRegistry]_vars

(***************************************************************************)
(* Steps the properties below speak about.                                 *)
(***************************************************************************)
\* the broadcast of task t ends in this step
BroadcastEnds(t) == bc[t].status = "sending" /\ bc'[t].status = "idle"

\* what that broadcast has done when it ends
BroadcastResult(t) == BroadcastResume(bc[t], websocket_clients, sockOpen)

\* handle_websocket of connection c ends in this step
HandlerEnds(c) == hpc[c] = "recv" /\ hpc'[c] = "done"

\* a stop() that found the server running ends in this step
StopEnds ==
    \/ stopRec.status = "closing" /\ stopRec'.status = "idle"
    \/ is_running /\ ~is_running' /\ stopRec'.status = "idle"

\* the frame handled last was a ui.component.update for a component that was
\* in the registry, with a props mapping
LastWasUpdateOfPresent ==
    /\ Get(last.frame, "type") = "ui.component.update"
    /\ Get(last.frame, "componentId") \in DOMAIN last.before
    /\ "props" \in DOMAIN last.frame

(***************************************************************************)
(* Properties.                                                             *)
(***************************************************************************)
\* C1: after ui.component.update{componentId: id, props: P} for an id in the
\* registry, get(id).props has every key of P with P's value, every other
\* props key keeps its value, and the component's other fields are unchanged.
\* The code merges P into the component dict itself (line 168), so this fails.
C1_UpdateMergesIntoProps ==
    LastWasUpdateOfPresent =>
        LET id == last.frame.componentId
            P == last.frame.props
            old == last.before[id]
        IN  /\ id \in DOMAIN components
            /\ \A k \in DOMAIN P :
                   k \in DOMAIN components[id].props /\ components[id].props[k] = P[k]
            /\ \A k \in (DOMAIN old.props) \ (DOMAIN P) :
                   k \in DOMAIN components[id].props
                       /\ components[id].props[k] = old.props[k]
            /\ components[id].fields = old.fields
            /\ components[id].children = old.children

\* C2: every entry of the registry is stored under a key equal to the
\* component's own non-empty id field.
C2_KeyIsOwnId ==
    \A k \in DOMAIN components :
        k # "" /\ Get(components[k].fields, "id") = k

\* C3: when a broadcast ends, every connection that was in the list when it
\* began iterating and has stayed open since has been sent the message or has
\* been removed from the list by that broadcast.
C3_BroadcastCoversStartSet ==
    [][\A t \in Tasks :
          BroadcastEnds(t) =>
              \A c \in bc[t].startOpen :
                  c \in BroadcastResult(t).sent \/ c \in BroadcastResult(t).pruned]_vars

\* C4: when a broadcast in which a send failed ends, every connection whose
\* send failed is out of the list, no exception has reached the handler that
\* issued the broadcast, and every connection of the start set that is still
\* in the list and open has been sent the message.
C4_SendFailureIsIsolated ==
    [][\A t \in Tasks :
          (BroadcastEnds(t) /\ BroadcastResult(t).failed # {}) =>
              /\ \A c \in BroadcastResult(t).failed : ~Contains(websocket_clients', c)
              /\ ~BroadcastResult(t).valueError
              /\ \A c \in bc[t].startOpen :
                     Contains(websocket_clients', c) => c \in BroadcastResult(t).sent]_vars

\* C5: at most one inbound message is being handled at any time.
C5_OneMessageAtATime ==
    Cardinality({c \in Conns : hpc[c] = "handling"}) <= 1

\* C6: removing a connection that is no longer in the list raises no error and
\* leaves the list unchanged, in the cleanup of a connection handler and at the
\* end of a broadcast.
C6_RemoveIsIdempotent ==
    [][/\ \A c \in Conns :
              (HandlerEnds(c) /\ ~Contains(websocket_clients, c)) =>
                  \A kind \in ExitKinds :
                      /\ ~HandleWebsocketEnd(websocket_clients, c, kind).valueError
                      /\ websocket_clients' = websocket_clients
       /\ \A t \in Tasks :
              BroadcastEnds(t) => ~BroadcastResult(t).valueError]_vars

\* C7: when the bind of start() fails, the server is Stopped afterwards
\* (is_running is false).
C7_BindFailureLeavesStopped ==
    [][BindFail => ~is_running']_vars

\* C8: a stop() that found the server running, with no start() called while it
\* was suspended, has closed every connection that was in the list when it
\* began, and ends with the list empty and is_running false.
C8_StopClosesEveryConnection ==
    [][(StopEnds /\ ~is_running) =>
          /\ stopRec.startOpen = {}
          /\ websocket_clients' = <<>>
          /\ ~is_running']_vars

\* C9: a connection whose handler has ended, by whichever way its receive loop
\* ended, is not in the list.
C9_EndedHandlerNotInSet ==
    \A c \in Conns : hpc[c] = "done" => ~Contains(websocket_clients, c)

\* C9 witness: a handler has ended while another connection is still served
\* and in the list.
C9_Witness ==
    \E c, d \in Conns :
        /\ hpc[c] = "done"
        /\ hpc[d] \in {"recv", "handling"}
        /\ Contains(websocket_clients, d)

\* C10: when stop() ends the registry is empty.
C10_StopClearsRegistry ==
    [][StopEnds => components' = EmptyDict]_vars

\* C11: within one broadcast call no connection is sent the message twice and
\* no failed send is tried again: the client whose send is awaited is none of
\* the clients the call has already sent to or has already failed on, and no
\* client is twice among the failed ones.
C11_AtMostOncePerCall ==
    \A t \in Tasks :
        bc[t].status = "sending" =>
            /\ bc[t].cur \notin bc[t].sent
            /\ bc[t].cur \notin Range(bc[t].disc)
            /\ Cardinality(Range(bc[t].disc)) = Len(bc[t].disc)

\* C11 witness: a broadcast that has sent to one client waits for its next
\* send while the handler of another connection has already ended.
C11_Witness ==
    \E t \in Tasks :
        /\ bc[t].status = "sending"
        /\ bc[t].sent # {}
        /\ \E c \in Conns : hpc[c] = "done"

\* the frame is a ui.component.update or ui.component.delete whose componentId
\* is not a key of the registry comps
UnknownIdFrame(comps, frame) ==
    /\ Get(frame, "type") \in {"ui.component.update", "ui.component.delete"}
    /\ Get(frame, "componentId") \notin DOMAIN comps

\* C12: handling a ui.component.update or ui.component.delete whose
\* componentId is not in the registry leaves the registry and the list of
\* connections unchanged, begins no broadcast and raises no error; the handler
\* goes on to wait for the next frame.
C12_UnknownIdIsSilentNoOp ==
    [][\A c \in Conns :
          (UnknownIdFrame(components, last'.frame) /\ Recv(c, last'.frame)) =>
              /\ components' = components
              /\ websocket_clients' = websocket_clients
              /\ bc'[c] = NoBroadcast
              /\ ~handle_message(components, last'.frame).raised
              /\ hpc'[c] = "recv"]_vars

\* C12 witness: the frame handled last was a delete or an update for an id that
\* was not in the registry, which held another component; the sender is still
\* in the list.
C12_Witness ==
    /\ UnknownIdFrame(last.before, last.frame)
    /\ last.before # EmptyDict
    /\ components = last.before
    /\ \E c \in Conns : hpc[c] = "recv" /\ Contains(websocket_clients, c)

\* the frames the dispatcher has to drop: text that is not JSON, a missing or
\* unknown type, a missing component, componentId or props, and a component
\* without a non-empty id
DroppedFrames ==
    {frame \in Frames :
        \/ "raw" \in DOMAIN frame
        \/ Get(frame, "type") \notin {"ui.studio.update", "ui.mcp.tool.call",
                                      "ui.component.create", "ui.component.update",
                                      "ui.component.delete"}
        \/ /\ frame.type \in {"ui.studio.update", "ui.component.create"}
           /\ "component" \notin DOMAIN frame
        \/ /\ frame.type \in {"ui.studio.update", "ui.component.create"}
           /\ "component" \in DOMAIN frame
           /\ ~Truthy(Get(frame.component.fields, "id"))
           /\ ~Truthy(Get(frame.component.fields, "componentId"))
        \/ /\ frame.type \in {"ui.component.update", "ui.component.delete"}
           /\ "componentId" \notin DOMAIN frame
        \/ /\ frame.type = "ui.component.update"
           /\ "props" \notin DOMAIN frame}

\* C13: a frame that is not JSON, has an unknown type or lacks a required
\* field is dropped: the registry and the list of connections are unchanged,
\* no broadcast begins, and the handler of the sending connection goes on to
\* wait for its next frame.
C13_BadFrameIsDropped ==
    [][\A c \in Conns :
          (last'.frame \in DroppedFrames /\ Recv(c, last'.frame)) =>
              /\ components' = components
              /\ websocket_clients' = websocket_clients
              /\ bc'[c] = NoBroadcast
              /\ hpc'[c] = "recv"
              /\ sockOpen'[c]]_vars

\* C13 witness: the frame handled last was one of the dropped frames, a raised
\* error was logged for it, the registry holds a component, and the sender is
\* in the list waiting for its next frame.
C13_Witness ==
    /\ last.frame \in DroppedFrames
    /\ handle_message(last.before, last.frame).raised
    /\ components # EmptyDict
    /\ components = last.before
    /\ \E c \in Conns : hpc[c] = "recv" /\ sockOpen[c] /\ Contains(websocket_clients, c)

\* the frame is a ui.component.create or ui.studio.update that carries a
\* component with a non-empty id
UpsertFrame(frame) ==
    /\ Get(frame, "type") \in {"ui.component.create", "ui.studio.update"}
    /\ "component" \in DOMAIN frame
    /\ Truthy(Get(frame.component.fields, "id"))

\* C14: handling ui.component.create or ui.studio.update with a component C
\* that has a non-empty id stores C under C.id in place of whatever was there,
\* leaves the other entries alone, and issues a broadcast of the same type
\* that carries C, whose sending begins with the first client of the list.
C14_UpsertStoresAndBroadcasts ==
    [][\A c \in Conns :
          (UpsertFrame(last'.frame) /\ Recv(c, last'.frame)) =>
              LET frame == last'.frame
                  C == frame.component
                  id == C.fields["id"]
                  msg == [type |-> frame.type, component |-> C]
              IN  /\ DOMAIN components' = (DOMAIN components) \cup {id}
                  /\ components'[id] = C
                  /\ \A k \in (DOMAIN components) \ {id} : components'[k] = components[k]
                  /\ handle_message(components, frame).out = <<msg>>
                  /\ websocket_clients # <<>> =>
                         /\ bc'[c].status = "sending"
                         /\ bc'[c].msg = <<msg>>
                         /\ bc'[c].cur = websocket_clients[1]]_vars

\* C14 witness: a create or studio update has replaced a different component
\* held under the same id, and its broadcast is being sent.
C14_Witness ==
    /\ UpsertFrame(last.frame)
    /\ last.frame.component.fields["id"] \in DOMAIN last.before
    /\ last.before[last.frame.component.fields["id"]] # last.frame.component
    /\ components[last.frame.component.fields["id"]] = last.frame.component
    /\ \E c \in Conns : bc[c].status = "sending" /\ bc[c].msg[1].type = last.frame.type

\* C15: handling ui.component.delete for an id in the registry removes that
\* entry and no other and issues one ui.component.delete broadcast for the id;
\* a second ui.component.delete for the same id then raises no error, leaves
\* the registry unchanged and issues no broadcast.
C15_DeleteThenDeleteAgain ==
    [][\A c \in Conns :
          (/\ Get(last'.frame, "type") = "ui.component.delete"
           /\ Get(last'.frame, "componentId") \in DOMAIN components
           /\ Recv(c, last'.frame)) =>
              LET frame == last'.frame
                  id == frame.componentId
                  second == handle_message(components', frame)
              IN  /\ DOMAIN components' = (DOMAIN components) \ {id}
                  /\ \A k \in DOMAIN components' : components'[k] = components[k]
                  /\ handle_message(components, frame).out =
                         <<[type |-> "ui.component.delete", componentId |-> id]>>
                  /\ ~second.raised
                  /\ second.comps = components'
                  /\ second.out = <<>>]_vars

\* C15 witness: the frame handled last deleted a component that was in the
\* registry, another component stays, and the delete broadcast is being sent.
C15_Witness ==
    /\ Get(last.frame, "type") = "ui.component.delete"
    /\ Get(last.frame, "componentId") \in DOMAIN last.before
    /\ Get(last.frame, "componentId") \notin DOMAIN components
    /\ components # EmptyDict
    /\ \E c \in Conns :
           bc[c].status = "sending" /\ bc[c].msg[1].type = "ui.component.delete"

\* C16: a broadcast that began with every client of the list open, during
\* which no connection was accepted or closed (by its peer, by its handler or
\* by a stop(), whose clearing of the list counts too), ends having sent to
\* each client of the list exactly once, with no failed send and no error, and leaves the
\* list as it was; the message it sends is the same from its first send to
\* its last.
C16_QuietBroadcastReachesAll ==
    [][\A t \in Tasks :
          /\ (BroadcastEnds(t) /\ bc[t].quiet) =>
                 /\ BroadcastResult(t).sent = Range(websocket_clients)
                 /\ bc[t].i = Len(websocket_clients)
                 /\ Cardinality(BroadcastResult(t).sent) = Len(websocket_clients)
                 /\ BroadcastResult(t).failed = {}
                 /\ ~BroadcastResult(t).valueError
                 /\ websocket_clients' = websocket_clients
          /\ (bc[t].status = "sending" /\ bc'[t].status = "sending") =>
                 bc'[t].msg = bc[t].msg]_vars

\* C16 witness: a quiet broadcast over a list of at least two clients waits
\* for its last send, having sent to every other client.
C16_Witness ==
    \E t \in Tasks :
        /\ bc[t].status = "sending"
        /\ bc[t].quiet
        /\ Len(websocket_clients) >= 2
        /\ bc[t].i = Len(websocket_clients)
        /\ bc[t].sent = Range(websocket_clients) \ {bc[t].cur}
        /\ sockOpen[bc[t].cur]

\* the state of the server apart from the records of what was called last
ServerState ==
    <<is_running, components, websocket_clients, listening, startPc, stopRec,
      hpc, sockOpen, bc>>

\* C17: start() called while is_running is true, and stop() called while it
\* is false, change nothing: the lifecycle state, the list, the registry and
\* every connection stay as they are, and no bind is begun.
C17_GuardedCallsAreNoOps ==
    [][/\ (Start /\ is_running) => (guardReturn' = "start" /\ UNCHANGED ServerState)
       /\ (Stop /\ ~is_running) => (guardReturn' = "stop" /\ UNCHANGED ServerState)]_vars

\* C17 witness: start() has just returned at its guard on a running server
\* that listens, serves an open connection and holds a component.
C17_Witness ==
    /\ guardReturn = "start"
    /\ is_running
    /\ listening
    /\ components # EmptyDict
    /\ \E c \in Conns : sockOpen[c] /\ Contains(websocket_clients, c)

\* C18: a click event, a change event and a ui.mcp.tool.call leave every
\* entry of the registry unchanged and issue their broadcast (ui.event,
\* ui.mcp.tool.response) whether or not the component id they name is in the
\* registry; its sending begins whenever the list holds a client.
C18_EventsLeaveRegistryAlone ==
    [][/\ \A id \in IdInputs :
              ButtonClick(id) =>
                  /\ components' = components
                  /\ websocket_clients # <<>> =>
                         /\ bc'[EventTask].status = "sending"
                         /\ bc'[EventTask].msg =
                                <<[type |-> "ui.event", eventType |-> "click",
                                   componentId |-> id]>>
       /\ \A id \in IdInputs :
              InputChange(id, "x") =>
                  /\ components' = components
                  /\ websocket_clients # <<>> =>
                         /\ bc'[EventTask].status = "sending"
                         /\ bc'[EventTask].msg =
                                <<[type |-> "ui.event", eventType |-> "change",
                                   componentId |-> id, value |-> "x"]>>
       /\ \A c \in Conns :
              (Get(last'.frame, "type") = "ui.mcp.tool.call" /\ Recv(c, last'.frame)) =>
                  /\ components' = components
                  /\ ~handle_message(components, last'.frame).raised
                  /\ websocket_clients # <<>> =>
                         /\ bc'[c].status = "sending"
                         /\ bc'[c].msg[1].type = "ui.mcp.tool.response"
                         /\ bc'[c].msg[1].response.tool = Get(last'.frame, "tool")]_vars

\* C18 witness: the broadcast of an event is being sent for a component id
\* that is not in the registry, while the registry holds another component.
C18_Witness ==
    /\ bc[EventTask].status = "sending"
    /\ bc[EventTask].msg[1].type = "ui.event"
    /\ bc[EventTask].msg[1].componentId \notin DOMAIN components
    /\ components # EmptyDict

\* C19: the handler of a connection takes its next frame, or ends, only when
\* the broadcast of its previous frame has ended; while that broadcast is in
\* progress its message stays the same and its loop only moves forward, so the
\* sends of an earlier frame all come before the sends of a later frame of the
\* same connection.
C19_FramesOfAConnectionInOrder ==
    [][\A c \in Conns :
          /\ Recv(c, last'.frame) => bc[c] = NoBroadcast
          /\ HandlerEnds(c) => bc[c] = NoBroadcast
          /\ bc[c].status = "sending" => hpc[c] = "handling"
          /\ (bc[c].status = "sending" /\ bc'[c].status = "sending") =>
                 /\ bc'[c].msg = bc[c].msg
                 /\ bc'[c].i \in {bc[c].i, bc[c].i + 1}]_vars

\* C19 witness: the only connection ever accepted is broadcasting a frame
\* after an earlier frame of its own has been handled.
C19_Witness ==
    \E c \in Conns :
        /\ hpc[c] = "handling"
        /\ bc[c].status = "sending"
        /\ \A d \in Conns \ {c} : hpc[d] = "new"
        /\ last.before # EmptyDict

\* stop() has completed and start() has not been called since: is_running is
\* false and no stop() is in its closing loop
Stopped == ~is_running /\ stopRec.status = "idle"

\* C20: from the end of stop() to the next start() the list of connections
\* stays empty and the registry is not written.
C20_StoppedServerIsQuiet ==
    [][(Stopped /\ Stopped') =>
          /\ websocket_clients' = <<>>
          /\ components' = components]_vars

====
